---- MODULE Spec2Model ----
(***************************************************************************)
(* KesiLiance API (app/main.py): the entity and sanction tables, the       *)
(* x-api-key gate and the screening handlers match_entity and              *)
(* match_entity_csv, which score every sanction against an entity name     *)
(* with rapidfuzz's fuzz.WRatio, keep the scores >= threshold, sort on the *)
(* score in descending order and slice to the limit.                       *)
(*                                                                         *)
(* A handler is one atomic step that leaves its HTTP response in resp;     *)
(* SendResponse hands the response to the client and returns the server    *)
(* to idle.  Scores are floats in the program; here they are fixed-point   *)
(* numbers in thousandths of a point (97959 is 97.959...), truncated.      *)
(***************************************************************************)
EXTENDS Integers, Sequences, FiniteSets, TLC

(* ------------------------------ bounds --------------------------------- *)

MaxEntities == 1

MaxSanctions == 2

MaxRows == 1

(* ------------------------------ values --------------------------------- *)

\* Python's None (a missing header, an unset environment variable, a NULL column).
None == "None"

\* The names of the model.  All are single tokens of 24 to 26 characters.
N0 == "rosoboronexportholdingllc"

N0U == "ROSOBORONEXPORTHOLDINGLLC"

NDel == "rosoboronexportholdingll"

NIns == "rosoboronexportsholdingllc"

NSub == "zzsoboronexportholdingzzz"

Names == {N0, N0U, NDel, NIns, NSub}

\* str.strip() on the raw texts of the model.
Strip(s) ==
    CASE s = " rosoboronexportholdingllc " -> N0
      [] s = "  " -> ""
      [] OTHER -> s

\* str.lower() on the names of the model.
Lower(s) == IF s = N0U THEN N0 ELSE s

Min(a, b) == IF a <= b THEN a ELSE b

Max(a, b) == IF a >= b THEN a ELSE b

(* ------------------------------- state --------------------------------- *)

VARIABLES
    entities,          \* table "entities": row i has id i
    sanctions,         \* table "sanctions": row i has id i; query.all()
                       \* yields the rows in this order
    API_KEY,           \* os.getenv("API_KEY"): None, "" or a key
    processorDefault,  \* the installed rapidfuzz: TRUE when WRatio's default
                       \* processor is utils.default_process (releases before
                       \* 3.0), FALSE when it is None (3.0 and later)
    resp               \* the response being sent, NoResp when idle

vars == <<entities, sanctions, API_KEY, processorDefault, resp>>

\* The x-api-key header of a request: missing, or a key.
Headers == {None, "k1"}

Thresholds == {-1, 80, 100, 101}

Limits == {-1, 0, 1, 5}

NoResp ==
    [op |-> "none", status |-> 0, detail |-> "", body |-> <<>>, inserted |-> 0,
     api_key |-> None, entity_id |-> 0, threshold |-> 0, limit |-> 0]

\* A response of handler op to a request carrying header key.
Response(op, key, status, detail, body, inserted) ==
    [op |-> op, status |-> status, detail |-> detail, body |-> body,
     inserted |-> inserted, api_key |-> key,
     entity_id |-> 0, threshold |-> 0, limit |-> 0]

Idle == resp = NoResp

(* ---------------------------- the scorer ------------------------------- *)

\* Length of the longest common subsequence of two names of the model.
LCSLen(a, b) ==
    CASE a = b -> Len(a)
      [] a = N0U \/ b = N0U -> 0
      [] {a, b} = {N0, NDel} -> 24
      [] {a, b} = {N0, NIns} -> 25
      [] {a, b} = {NDel, NIns} -> 24
      [] OTHER -> 20

\* rapidfuzz fuzz.ratio: the normalized Indel similarity,
\* 100 * 2 * lcs / (len(a) + len(b)), in thousandths.
Ratio(a, b) == (200000 * LCSLen(a, b)) \div (Len(a) + Len(b))

\* rapidfuzz utils.default_process on the names of the model: lower-case
\* (they hold no non-alphanumeric character and no outer blank).
DefaultProcess(s) == Lower(s)

\* fuzz.WRatio(s1, s2) as main.py calls it, with no processor argument.
\* Either string empty gives 0.  The names of the model are single tokens
\* whose lengths differ by a factor below 1.5, where WRatio is
\* max(ratio, 0.95 * token_ratio) and token_ratio equals ratio.
WRatio(s1, s2) ==
    LET a == IF processorDefault THEN DefaultProcess(s1) ELSE s1
        b == IF processorDefault THEN DefaultProcess(s2) ELSE s2
    IN  IF a = "" \/ b = "" THEN 0
        ELSE Max(Ratio(a, b), (95 * Ratio(a, b)) \div 100)

\* f"{score:.1f}": the score rounded to one decimal (ties to even), as the
\* number of tenths the text spells.
FormatScore(score) ==
    LET q == score \div 100
        r == score % 100
    IN  IF r > 50 \/ (r = 50 /\ q % 2 = 1) THEN q + 1 ELSE q

\* float(text) of a one-decimal text, back in thousandths.
ParseFloat(text) == text * 100

(* --------------------------- the pipeline ------------------------------ *)

\* Mutant of Keep: the comparison made strict.
KeepStrict(score, threshold) == score > threshold * 1000

\* score >= threshold, a float against an int.
Keep(score, threshold) == score >= threshold * 1000

\* The position of element i after list.sort(key=..., reverse=True): the sort
\* is stable, also in reverse, so equal keys keep their order.
Rank(keys, i) ==
    1 + Cardinality({j \in DOMAIN keys :
                        keys[j] > keys[i] \/ (keys[j] = keys[i] /\ j < i)})

\* Mutant of SortDesc: the reverse flag dropped, an ascending stable sort.
SortAsc(keys) ==
    [p \in 1..Len(keys) |->
        CHOOSE i \in DOMAIN keys :
            p = 1 + Cardinality({j \in DOMAIN keys :
                        keys[j] < keys[i] \/ (keys[j] = keys[i] /\ j < i)})]

\* Mutant of SortDesc: an ascending sort followed by a reversal, which turns
\* the order of equal keys around.
SortAscThenReverse(keys) ==
    [p \in 1..Len(keys) |->
        CHOOSE i \in DOMAIN keys :
            p = 1 + Cardinality({j \in DOMAIN keys :
                        keys[j] > keys[i] \/ (keys[j] = keys[i] /\ j > i)})]

\* The permutation list.sort(key=..., reverse=True) applies to a list whose
\* keys are keys.
SortDesc(keys) ==
    [p \in 1..Len(keys) |-> CHOOSE i \in DOMAIN keys : Rank(keys, i) = p]

Permute(seq, perm) == [p \in 1..Len(seq) |-> seq[perm[p]]]

\* Mutant of Slice: the end of the slice off by one.
SliceOffByOne(seq, limit) == SubSeq(seq, 1, Min(limit + 1, Len(seq)))

\* seq[:limit]
Slice(seq, limit) ==
    IF limit >= 0 THEN SubSeq(seq, 1, Min(limit, Len(seq)))
    ELSE SubSeq(seq, 1, Max(Len(seq) + limit, 0))

MatchOut(s, score) ==
    [sanction_id |-> s.id, name |-> s.name, source |-> s.source,
     country |-> s.country, score |-> score]

\* The loop of match_entity: one MatchOut per sanction whose score passes.
RECURSIVE MatchResults(_, _, _)
MatchResults(entity, rows, threshold) ==
    IF rows = <<>> THEN <<>>
    ELSE LET s == Head(rows)
             score == WRatio(entity.name, s.name)
             rest == MatchResults(entity, Tail(rows), threshold)
         IN  IF Keep(score, threshold) THEN <<MatchOut(s, score)>> \o rest
             ELSE rest

\* What match_entity returns for an entity that exists.
MatchBody(entity, rows, threshold, limit) ==
    LET results == MatchResults(entity, rows, threshold)
        keys == [i \in DOMAIN results |-> results[i].score]
    IN  Slice(Permute(results, SortDesc(keys)), limit)

CsvRow(entity, s, score) ==
    [entity_id |-> entity.id, entity_name |-> entity.name,
     sanction_id |-> s.id, sanction_name |-> s.name,
     source |-> IF s.source = None THEN "" ELSE s.source,
     country |-> IF s.country = None THEN "" ELSE s.country,
     score |-> FormatScore(score)]

\* The loop of match_entity_csv: one row per sanction whose score passes.
RECURSIVE MatchRows(_, _, _)
MatchRows(entity, rows, threshold) ==
    IF rows = <<>> THEN <<>>
    ELSE LET s == Head(rows)
             score == WRatio(entity.name, s.name)
             rest == MatchRows(entity, Tail(rows), threshold)
         IN  IF Keep(score, threshold) THEN <<CsvRow(entity, s, score)>> \o rest
             ELSE rest

\* The rows match_entity_csv writes for an entity that exists.
MatchCsvBody(entity, rows, threshold, limit) ==
    LET out == MatchRows(entity, rows, threshold)
        keys == [i \in DOMAIN out |-> ParseFloat(out[i].score)]
    IN  Slice(Permute(out, SortDesc(keys)), limit)

(* --------------------------- the API key ------------------------------- *)

\* Mutant of RequireApiKey: the header is compared only when it was sent.
RequireApiKeyIfSent(api_key) ==
    \/ API_KEY = None
    \/ API_KEY = ""
    \/ api_key = None
    \/ api_key = API_KEY

\* require_api_key passes: no key expected, or the header equals it.
RequireApiKey(api_key) ==
    \/ API_KEY = None
    \/ API_KEY = ""
    \/ api_key = API_KEY

Unauthorized(op, key) == Response(op, key, 401, "Invalid API key", <<>>, 0)

(* ------------------------------ inputs --------------------------------- *)

\* POST /entities payloads (EntityCreate).
EntityPayloads ==
    {[name |-> " rosoboronexportholdingllc ", country |-> "RU"],
     [name |-> N0U, country |-> None]}

\* CSV data rows, cell texts as csv.DictReader yields them.
CsvRow1 == [name |-> " rosoboronexportholdingllc ", country |-> "RU", source |-> "OFAC"]

CsvRow2 == [name |-> N0U, country |-> "", source |-> ""]

CsvRow3 == [name |-> NDel, country |-> "RU", source |-> "EU"]

CsvRow4 == [name |-> NIns, country |-> "", source |-> "OFAC"]

CsvRow5 == [name |-> NSub, country |-> " IR ", source |-> ""]

CsvBlank == [name |-> "  ", country |-> "RU", source |-> "OFAC"]

EntityCsvRows == {CsvRow1, CsvRow2, CsvBlank}

SanctionCsvRows == {CsvRow1, CsvRow2, CsvRow3, CsvRow4, CsvRow5, CsvBlank}

SeqsUpTo(S, n) == UNION {[1..k -> S] : k \in 0..n}

\* How the header line of a CSV names the name column: "name" ("name",
\* "Name"), "padded" (" name": found by the header check, which strips, and
\* not by the row lookup, which does not), "missing".
HeaderKinds == {"name", "padded", "missing"}

\* An uploaded or downloaded CSV: whether its filename ends in .csv, its
\* header and its data rows.
CsvFiles(rowSet) ==
    [csv : {TRUE}, header : {"name"}, rows : SeqsUpTo(rowSet, MaxRows)]
        \cup [csv : BOOLEAN, header : HeaderKinds, rows : {<<CsvRow1>>}]

\* GET /entities and GET /sanctions query parameters.
ListLimits == {1, 100}

ListOffsets == {0, 1}

ListQueries == {None, "", "llc"}

ListSources == {None, "OFAC"}

(* ------------------------------ CSV import ----------------------------- *)

\* (cell or "").strip() or None
CellOrNone(cell) ==
    IF cell \in {"", "  "} THEN None
    ELSE IF cell = " IR " THEN "IR"
    ELSE cell

\* The name the import loop reads from a row: with a padded header the row
\* lookup keys.get("name") finds no column and the name is "".
RowName(file, row) == IF file.header = "name" THEN Strip(row.name) ELSE ""

\* The rows of the file whose name is not empty, in file order.
RECURSIVE NamedRows(_, _)
NamedRows(file, rows) ==
    IF rows = <<>> THEN <<>>
    ELSE IF RowName(file, Head(rows)) = "" THEN NamedRows(file, Tail(rows))
    ELSE <<Head(rows)>> \o NamedRows(file, Tail(rows))

\* db.add(models.Entity(...)) for each named row, then commit: ids follow on.
AddEntities(table, file, rows) ==
    table \o [i \in 1..Len(rows) |->
                [id |-> Len(table) + i,
                 name |-> RowName(file, rows[i]),
                 country |-> CellOrNone(rows[i].country)]]

\* db.add(models.Sanction(...)) for each named row, then commit.
AddSanctions(table, file, rows) ==
    table \o [i \in 1..Len(rows) |->
                [id |-> Len(table) + i,
                 name |-> RowName(file, rows[i]),
                 country |-> CellOrNone(rows[i].country),
                 source |-> CellOrNone(rows[i].source)]]

(* ------------------------------- listing ------------------------------- *)

\* name ILIKE '%q%' on the names and queries of the model.
ILike(name, q) == q = "llc" /\ name \in {N0, N0U, NIns}

Reverse(seq) == [i \in 1..Len(seq) |-> seq[Len(seq) + 1 - i]]

\* ORDER BY id DESC OFFSET offset LIMIT limit over the selected rows.
Page(selected, limit, offset) ==
    LET desc == Reverse(selected)
    IN  SubSeq(desc, offset + 1, Min(offset + limit, Len(desc)))

(* ----------------------------- handlers -------------------------------- *)

Health ==
    /\ Idle
    /\ resp' = Response("health", None, 200, "ok", <<>>, 0)
    /\ UNCHANGED <<entities, sanctions, API_KEY, processorDefault>>

Root ==
    /\ Idle
    /\ resp' = Response("root", None, 200, "Bienvenue sur KesiLiance API", <<>>, 0)
    /\ UNCHANGED <<entities, sanctions, API_KEY, processorDefault>>

\* POST /entities
CreateEntity(payload, key) ==
    /\ Idle
    /\ IF ~RequireApiKey(key)
       THEN /\ resp' = Unauthorized("create_entity", key)
            /\ UNCHANGED entities
       ELSE /\ Len(entities) < MaxEntities
            /\ LET e == [id |-> Len(entities) + 1,
                         name |-> Strip(payload.name),
                         country |-> payload.country]
               IN  /\ entities' = Append(entities, e)
                   /\ resp' = Response("create_entity", key, 200, "", <<e>>, 0)
    /\ UNCHANGED <<sanctions, API_KEY, processorDefault>>

\* GET /entities
ListEntities(limit, offset, q, key) ==
    /\ Idle
    /\ IF ~RequireApiKey(key)
       THEN resp' = Unauthorized("list_entities", key)
       ELSE LET selected ==
                    IF q \in {None, ""} THEN entities
                    ELSE SelectSeq(entities, LAMBDA e : ILike(e.name, q))
            IN  resp' = Response("list_entities", key, 200, "",
                                 Page(selected, limit, offset), 0)
    /\ UNCHANGED <<entities, sanctions, API_KEY, processorDefault>>

\* POST /entities/import
ImportEntities(file, key) ==
    /\ Idle
    /\ IF ~RequireApiKey(key)
       THEN /\ resp' = Unauthorized("import_entities", key)
            /\ UNCHANGED entities
       ELSE IF ~file.csv
       THEN /\ resp' = Response("import_entities", key, 400,
                                "Veuillez envoyer un fichier .csv", <<>>, 0)
            /\ UNCHANGED entities
       ELSE IF file.header = "missing"
       THEN /\ resp' = Response("import_entities", key, 400,
                                "Le CSV doit contenir 'name'", <<>>, 0)
            /\ UNCHANGED entities
       ELSE LET rows == NamedRows(file, file.rows)
            IN  /\ Len(entities) + Len(rows) <= MaxEntities
                /\ entities' = AddEntities(entities, file, rows)
                /\ resp' = Response("import_entities", key, 200, "", <<>>, Len(rows))
    /\ UNCHANGED <<sanctions, API_KEY, processorDefault>>

\* POST /sanctions/import
ImportSanctions(file, key) ==
    /\ Idle
    /\ IF ~RequireApiKey(key)
       THEN /\ resp' = Unauthorized("import_sanctions", key)
            /\ UNCHANGED sanctions
       ELSE IF ~file.csv
       THEN /\ resp' = Response("import_sanctions", key, 400,
                                "Veuillez envoyer un fichier .csv", <<>>, 0)
            /\ UNCHANGED sanctions
       ELSE IF file.header = "missing"
       THEN /\ resp' = Response("import_sanctions", key, 400,
                                "Le CSV doit contenir 'name'", <<>>, 0)
            /\ UNCHANGED sanctions
       ELSE LET rows == NamedRows(file, file.rows)
            IN  /\ Len(sanctions) + Len(rows) <= MaxSanctions
                /\ sanctions' = AddSanctions(sanctions, file, rows)
                /\ resp' = Response("import_sanctions", key, 200, "", <<>>, Len(rows))
    /\ UNCHANGED <<entities, API_KEY, processorDefault>>

\* GET /sanctions
ListSanctions(limit, offset, q, source, key) ==
    /\ Idle
    /\ IF ~RequireApiKey(key)
       THEN resp' = Unauthorized("list_sanctions", key)
       ELSE LET byName ==
                    IF q \in {None, ""} THEN sanctions
                    ELSE SelectSeq(sanctions, LAMBDA s : ILike(s.name, q))
                selected ==
                    IF source \in {None, ""} THEN byName
                    ELSE SelectSeq(byName, LAMBDA s : s.source = source)
            IN  resp' = Response("list_sanctions", key, 200, "",
                                 Page(selected, limit, offset), 0)
    /\ UNCHANGED <<entities, sanctions, API_KEY, processorDefault>>

\* GET /match/{entity_id}
MatchEntity(entity_id, threshold, limit, key) ==
    /\ Idle
    /\ IF ~RequireApiKey(key)
       THEN resp' = Unauthorized("match_entity", key)
       ELSE IF entity_id \notin DOMAIN entities
       THEN resp' = [Response("match_entity", key, 404, "Entity not found", <<>>, 0)
                        EXCEPT !.entity_id = entity_id]
       ELSE resp' = [Response("match_entity", key, 200, "",
                              MatchBody(entities[entity_id], sanctions, threshold, limit), 0)
                        EXCEPT !.entity_id = entity_id, !.threshold = threshold,
                               !.limit = limit]
    /\ UNCHANGED <<entities, sanctions, API_KEY, processorDefault>>

\* Mutant of MatchEntityCsv: the handler lower-cases the candidates' names in
\* place and the session writes them back.
MatchEntityCsvNormalising(entity_id, threshold, limit, key) ==
    /\ Idle
    /\ RequireApiKey(key)
    /\ entity_id \in DOMAIN entities
    /\ sanctions' = [i \in DOMAIN sanctions |->
                        [sanctions[i] EXCEPT !.name = Lower(@)]]
    /\ resp' = [Response("match_entity_csv", key, 200, "",
                         MatchCsvBody(entities[entity_id], sanctions', threshold, limit), 0)
                   EXCEPT !.entity_id = entity_id, !.threshold = threshold,
                          !.limit = limit]
    /\ UNCHANGED <<entities, API_KEY, processorDefault>>

\* GET /match/{entity_id}/csv
MatchEntityCsv(entity_id, threshold, limit, key) ==
    /\ Idle
    /\ IF ~RequireApiKey(key)
       THEN resp' = Unauthorized("match_entity_csv", key)
       ELSE IF entity_id \notin DOMAIN entities
       THEN resp' = [Response("match_entity_csv", key, 404, "Entity not found", <<>>, 0)
                        EXCEPT !.entity_id = entity_id]
       ELSE resp' = [Response("match_entity_csv", key, 200, "",
                              MatchCsvBody(entities[entity_id], sanctions, threshold, limit), 0)
                        EXCEPT !.entity_id = entity_id, !.threshold = threshold,
                               !.limit = limit]
    /\ UNCHANGED <<entities, sanctions, API_KEY, processorDefault>>

\* POST /admin/refresh_sanctions: the download answers status_code with the
\* CSV file as its content.  (The return statement of the source is written
\* with stray backslashes; the handler is taken to return the dict it spells.)
AdminRefreshSanctions(status_code, file, key) ==
    /\ Idle
    /\ IF ~RequireApiKey(key)
       THEN /\ resp' = Unauthorized("admin_refresh_sanctions", key)
            /\ UNCHANGED sanctions
       ELSE IF status_code # 200
       THEN /\ resp' = Response("admin_refresh_sanctions", key, 400,
                                "Download failed", <<>>, 0)
            /\ UNCHANGED sanctions
       ELSE IF file.header = "missing"
       THEN /\ resp' = Response("admin_refresh_sanctions", key, 400,
                                "CSV must include name", <<>>, 0)
            /\ UNCHANGED sanctions
       ELSE LET rows == NamedRows(file, file.rows)
            IN  /\ Len(sanctions) + Len(rows) <= MaxSanctions
                /\ sanctions' = AddSanctions(sanctions, file, rows)
                /\ resp' = Response("admin_refresh_sanctions", key, 200, "", <<>>,
                                    Len(rows))
    /\ UNCHANGED <<entities, API_KEY, processorDefault>>

\* The response leaves the server.
SendResponse ==
    /\ ~Idle
    /\ resp' = NoResp
    /\ UNCHANGED <<entities, sanctions, API_KEY, processorDefault>>

Init ==
    /\ entities = <<>>
    /\ sanctions = <<>>
    /\ API_KEY \in {None, "", "k1", "k2"}
    /\ processorDefault \in BOOLEAN
    /\ resp = NoResp

Next ==
    \/ Health
    \/ Root
    \/ \E payload \in EntityPayloads, key \in Headers : CreateEntity(payload, key)
    \/ \E limit \in ListLimits, offset \in ListOffsets, q \in ListQueries, key \in Headers :
          ListEntities(limit, offset, q, key)
    \/ \E file \in CsvFiles(EntityCsvRows), key \in Headers : ImportEntities(file, key)
    \/ \E file \in CsvFiles(SanctionCsvRows), key \in Headers : ImportSanctions(file, key)
    \/ \E limit \in ListLimits, offset \in ListOffsets, q \in ListQueries,
          source \in ListSources, key \in Headers :
          ListSanctions(limit, offset, q, source, key)
    \/ \E entity_id \in 1..(MaxEntities + 1), threshold \in Thresholds,
          limit \in Limits, key \in Headers :
          MatchEntity(entity_id, threshold, limit, key)
    \/ \E entity_id \in 1..(MaxEntities + 1), threshold \in Thresholds,
          limit \in Limits, key \in Headers :
          MatchEntityCsv(entity_id, threshold, limit, key)
    \/ \E status_code \in {200, 404}, file \in CsvFiles(SanctionCsvRows), key \in Headers :
          AdminRefreshSanctions(status_code, file, key)
    \/ SendResponse

Spec == Init /\ [][Next]_vars

(* ------------------------------ claims --------------------------------- *)

MatchOps == {"match_entity", "match_entity_csv"}

ProtectedOps ==
    {"create_entity", "list_entities", "import_entities", "import_sanctions",
     "list_sanctions", "match_entity", "match_entity_csv", "admin_refresh_sanctions"}

\* A screening call has answered with a ranked list.
Screened == resp.op \in MatchOps /\ resp.status = 200

\* The entity the answered call screened.
Queried == entities[resp.entity_id]

\* The ids of the candidates whose score is at least the call's threshold.
Passers ==
    {i \in DOMAIN sanctions :
        WRatio(Queried.name, sanctions[i].name) >= resp.threshold * 1000}

\* The score a returned element carries, in thousandths: a float in the
\* structured output, a one-decimal text in a CSV row.
ReturnedScore(i) ==
    IF resp.op = "match_entity" THEN resp.body[i].score ELSE resp.body[i].score * 100

Ids(body) == [i \in DOMAIN body |-> body[i].sanction_id]

\* The ranked list the answered call returns when its limit cannot truncate.
Unbounded ==
    IF resp.op = "match_entity"
    THEN MatchBody(Queried, sanctions, resp.threshold, Len(sanctions))
    ELSE MatchCsvBody(Queried, sanctions, resp.threshold, Len(sanctions))

\* C1: a screening call whose threshold is outside [0,100] fails; it returns
\* no ranked list (shown for calls whose limit is valid).
C1_ThresholdOutOfRangeFails ==
    (/\ resp.op \in MatchOps
     /\ resp.limit > 0
     /\ (resp.threshold < 0 \/ resp.threshold > 100))
        => resp.status # 200

\* C2: a screening call with a valid threshold whose limit is <= 0 fails; it
\* returns no list of results.
C2_NonPositiveLimitFails ==
    (resp.op \in MatchOps /\ resp.threshold \in 0..100 /\ resp.limit <= 0)
        => resp.status # 200

\* C3: the threshold filter is inclusive and exact: every returned match has
\* score >= threshold and is a candidate whose score is >= threshold, every
\* such candidate (also one whose score equals the threshold) is returned
\* when the limit does not truncate, and with threshold 100 every returned
\* score is 100.
C3_ThresholdFilter ==
    Screened =>
        /\ \A i \in DOMAIN resp.body :
              /\ ReturnedScore(i) >= resp.threshold * 1000
              /\ resp.body[i].sanction_id \in Passers
        /\ resp.limit >= Len(sanctions)
              => {resp.body[i].sanction_id : i \in DOMAIN resp.body} = Passers
        /\ resp.threshold = 100
              => \A i \in DOMAIN resp.body : ReturnedScore(i) = 100000

\* C3 witness: a call with threshold 80 returned a candidate whose score is
\* exactly 80 and left out a candidate that scores less.
C3_Witness ==
    /\ Screened
    /\ resp.threshold = 80
    /\ \E i \in DOMAIN resp.body : ReturnedScore(i) = 80000
    /\ \E i \in DOMAIN sanctions : i \notin Passers

\* C4: for a limit > 0 the result has min(limit, number of candidates with
\* score >= threshold) elements and is a prefix of the ranked list the same
\* call returns with an unbounded limit.
C4_LimitTruncation ==
    (Screened /\ resp.limit > 0) =>
        /\ Len(resp.body) = Min(resp.limit, Cardinality(Passers))
        /\ resp.body = SubSeq(Unbounded, 1, Len(resp.body))

\* C4 witness: more candidates passed the threshold than the limit admits.
C4_Witness ==
    /\ Screened
    /\ resp.limit > 0
    /\ Cardinality(Passers) > resp.limit
    /\ Len(resp.body) = resp.limit

\* C5: the result is ordered by score, descending.
C5_DescendingScores ==
    Screened =>
        \A i, j \in DOMAIN resp.body :
            i < j => resp.body[i].score >= resp.body[j].score

\* C5 witness: two returned matches with different scores, the later
\* candidate first.
C5_Witness ==
    /\ Screened
    /\ Len(resp.body) >= 2
    /\ resp.body[1].score > resp.body[2].score
    /\ resp.body[1].sanction_id > resp.body[2].sanction_id

\* C6: returned matches with equal scores keep the order of the candidate
\* collection (the order of the ids).
C6_StableTies ==
    Screened =>
        \A i, j \in DOMAIN resp.body :
            (i < j /\ resp.body[i].score = resp.body[j].score)
                => resp.body[i].sanction_id < resp.body[j].sanction_id

\* C6 witness: two returned matches with equal scores whose names would sort
\* the other way round.
C6_Witness ==
    /\ Screened
    /\ resp.op = "match_entity"
    /\ \E i, j \in DOMAIN resp.body :
          /\ i < j
          /\ resp.body[i].score = resp.body[j].score
          /\ resp.body[i].name = N0
          /\ resp.body[j].name = N0U

\* C7: a step that answers a screening call, with a list or with an error,
\* leaves the entity and sanction tables as they were.
C7_ScreeningReadOnly ==
    [][resp'.op \in MatchOps => (entities' = entities /\ sanctions' = sanctions)]_vars

\* C7 witness: a CSV screening call returned rows, one of them for a
\* candidate whose name is not in lower case.
C7_Witness ==
    /\ Screened
    /\ resp.op = "match_entity_csv"
    /\ \E i \in DOMAIN resp.body : resp.body[i].sanction_name = N0U

\* A screening call with a threshold in [0,100] and a limit > 0 has answered
\* with a ranked list.
ScreenedValid == Screened /\ resp.threshold \in 0..100 /\ resp.limit > 0

\* C8: the result of a screening call is the result of the same call with
\* the query name and every candidate name in lower case.
C8_CaseInsensitive ==
    (ScreenedValid /\ resp.op = "match_entity") =>
        Ids(resp.body) =
            Ids(MatchBody([Queried EXCEPT !.name = Lower(@)],
                          [i \in DOMAIN sanctions |->
                              [sanctions[i] EXCEPT !.name = Lower(@)]],
                          resp.threshold, resp.limit))

\* C9: with API_KEY set, a request to a protected endpoint whose x-api-key
\* header is missing or differs is answered 401, with no result and no change
\* to the tables; with API_KEY undefined or empty no request is answered 401.
C9_ApiKeyGate ==
    [][resp'.op \in ProtectedOps =>
          /\ (API_KEY \notin {None, ""} /\ resp'.api_key # API_KEY)
                => /\ resp'.status = 401
                   /\ resp'.body = <<>>
                   /\ resp'.inserted = 0
                   /\ entities' = entities
                   /\ sanctions' = sanctions
          /\ API_KEY \in {None, ""} => resp'.status # 401]_vars

\* C9 witness: a request without the header was rejected while the sanction
\* table held records.
C9_Witness ==
    /\ resp.op \in ProtectedOps
    /\ resp.status = 401
    /\ resp.api_key = None
    /\ Len(sanctions) > 0

\* C10: match_entity returns the sanction ids match_entity_csv returns for
\* the same entity, sanctions, threshold and limit, in the same order.
C10_JsonCsvAgree ==
    (ScreenedValid /\ resp.op = "match_entity") =>
        Ids(resp.body) =
            Ids(MatchCsvBody(Queried, sanctions, resp.threshold, resp.limit))

====
